---- MODULE Spec2Model ----
(***************************************************************************)
(* DNSButler (dnsbutler.py): main() parses hostname=ip arguments and       *)
(* DNSServerManager.start() resolves the public IP, checks the container   *)
(* runtime, pulls the BIND image, groups the records by apex domain,       *)
(* writes named.conf and the db.<apex> zone files and replaces the         *)
(* "dns-server" container.                                                  *)
(*                                                                         *)
(* Text is modelled as a tuple of tokens: user data (entries, hostnames,   *)
(* IPs) is one character per token, so that split, strip, join and ljust   *)
(* work on characters as in Python; literal text of the templates is one   *)
(* token per literal.                                                      *)
(***************************************************************************)
EXTENDS Integers, Sequences, FiniteSets, TLC

(***************************************************************************)
(* Bounds of the model.                                                    *)
(***************************************************************************)
\* Largest number of command-line entries of a run.
MaxEntries == 2

(***************************************************************************)
(* Program constants.                                                      *)
(***************************************************************************)
\* max_retries of _pull_bind_image.
max_retries == 3
\* Column width of record.ljust(30) in _generate_zone_file.
PadWidth == 30

(***************************************************************************)
(* Python string operations, on tuples of characters.                      *)
(***************************************************************************)
\* c in s
Contains(s, c) == \E i \in 1..Len(s) : s[i] = c

\* s.index(c), for a string that contains c
IndexOf(s, c) == CHOOSE i \in 1..Len(s) : s[i] = c /\ \A j \in 1..(i-1) : s[j] # c

\* The positions of c in s, in increasing order
Positions(s, c) ==
    LET P == {i \in 1..Len(s) : s[i] = c}
    IN  [k \in 1..Cardinality(P) |->
            CHOOSE p \in P : Cardinality({q \in P : q < p}) = k - 1]

\* s.split(c): the pieces between the occurrences of c
Split(s, c) ==
    LET at == Positions(s, c)
        n  == Len(at)
    IN  [k \in 1..(n + 1) |->
            SubSeq(s, IF k = 1 THEN 1 ELSE at[k-1] + 1,
                      IF k = n + 1 THEN Len(s) ELSE at[k] - 1)]

\* s.split(c, 1): split at the first occurrence of c only
SplitOnce(s, c) ==
    IF ~Contains(s, c) THEN <<s>>
    ELSE LET i == IndexOf(s, c)
         IN  <<SubSeq(s, 1, i-1), SubSeq(s, i+1, Len(s))>>

\* s.strip(): leading and trailing blanks removed
Strip(s) ==
    LET keep == {i \in 1..Len(s) : s[i] # " "}
    IN  IF keep = {} THEN <<>>
        ELSE SubSeq(s, CHOOSE i \in keep : \A j \in keep : i <= j,
                       CHOOSE i \in keep : \A j \in keep : j <= i)

\* c.join(parts), from the i-th part on
RECURSIVE JoinFrom(_, _, _)
JoinFrom(parts, c, i) ==
    IF i > Len(parts) THEN <<>>
    ELSE IF i = Len(parts) THEN parts[i]
    ELSE parts[i] \o <<c>> \o JoinFrom(parts, c, i + 1)

\* c.join(parts)
Join(parts, c) == JoinFrom(parts, c, 1)

\* parts[-2:]
LastTwo(parts) ==
    IF Len(parts) <= 2 THEN parts ELSE SubSeq(parts, Len(parts)-1, Len(parts))

\* s.ljust(n): s padded with blanks on the right up to n characters
Ljust(s, n) ==
    IF Len(s) >= n THEN s ELSE s \o [i \in 1..(n - Len(s)) |-> " "]

(***************************************************************************)
(* Python dicts keep insertion order: a dict is a tuple of <<key, value>>  *)
(* pairs with distinct keys.                                               *)
(***************************************************************************)
Keys(d) == {d[i][1] : i \in 1..Len(d)}

HasKey(d, k) == \E i \in 1..Len(d) : d[i][1] = k

\* d[k], for a key of d
Get(d, k) == d[CHOOSE i \in 1..Len(d) : d[i][1] = k][2]

\* d[k] = v: an existing key keeps its position, a new key is appended
Put(d, k, v) ==
    IF HasKey(d, k)
    THEN [i \in 1..Len(d) |-> IF d[i][1] = k THEN <<k, v>> ELSE d[i]]
    ELSE Append(d, <<k, v>>)

\* d.setdefault(k, default)
SetDefault(d, k, default) == IF HasKey(d, k) THEN d ELSE Append(d, <<k, default>>)

(***************************************************************************)
(* Inputs: the command-line entries a run may be given.                    *)
(***************************************************************************)
HostA   == <<"a", ".", "e", ".", "c">>
HostB   == <<"b", ".", "e", ".", "c">>
HostF   == <<"x", ".", "a", ".", "f", ".", "c">>
HostOne == <<"l">>
Ip1     == <<"1", ".", "1", ".", "1", ".", "1">>
Ip2     == <<"2", ".", "2", ".", "2", ".", "2">>
IpBad   == <<"9", "9", "9", ".", "1", ".", "1", ".", "1">>

\* "a.e.c=1.1.1.1", "a.e.c = 2.2.2.2", "b.e.c=1.1.1.1", "x.a.f.c=2.2.2.2",
\* "l=999.1.1.1" (one label, and an octet above 255), "a.e.c" (no '=')
EntryPool ==
    { HostA \o <<"=">> \o Ip1,
      HostA \o <<" ", "=", " ">> \o Ip2,
      HostB \o <<"=">> \o Ip1,
      HostF \o <<"=">> \o Ip2,
      HostOne \o <<"=">> \o IpBad,
      HostA }

\* argparse nargs='+': one entry at least
ArgLists == UNION {[1..n -> EntryPool] : n \in 1..MaxEntries}

(***************************************************************************)
(* main: the loop that parses the entries into the records dict.           *)
(***************************************************************************)
NoError == [type |-> "none", msg |-> "none"]

\* ParseEntries with records.setdefault(host, ip) for records[host] = ip.
RECURSIVE ParseEntriesFirstWins(_, _)
ParseEntriesFirstWins(entries, records) ==
    IF entries = <<>> THEN [error |-> NoError, records |-> records]
    ELSE LET entry == Head(entries)
         IN  IF ~Contains(entry, "=")
             THEN [error |-> [type |-> "ValueError", msg |-> "Invalid record format"],
                   records |-> records]
             ELSE LET hi == SplitOnce(entry, "=")
                  IN  ParseEntriesFirstWins(
                          Tail(entries),
                          IF HasKey(records, Strip(hi[1])) THEN records
                          ELSE Append(records, <<Strip(hi[1]), Strip(hi[2])>>))

\* ParseEntries with an entry without '=' skipped instead of raising.
RECURSIVE ParseEntriesSkipBad(_, _)
ParseEntriesSkipBad(entries, records) ==
    IF entries = <<>> THEN [error |-> NoError, records |-> records]
    ELSE LET entry == Head(entries)
         IN  IF ~Contains(entry, "=")
             THEN ParseEntriesSkipBad(Tail(entries), records)
             ELSE LET hi == SplitOnce(entry, "=")
                  IN  ParseEntriesSkipBad(Tail(entries),
                                          Put(records, Strip(hi[1]), Strip(hi[2])))

RECURSIVE ParseEntries(_, _)
ParseEntries(entries, records) ==
    IF entries = <<>> THEN [error |-> NoError, records |-> records]
    ELSE LET entry == Head(entries)
         IN  IF ~Contains(entry, "=")
             THEN [error |-> [type |-> "ValueError", msg |-> "Invalid record format"],
                   records |-> records]
             ELSE LET hi == SplitOnce(entry, "=")
                  IN  ParseEntries(Tail(entries),
                                   Put(records, Strip(hi[1]), Strip(hi[2])))

(***************************************************************************)
(* start: "Organize records by domain".                                    *)
(***************************************************************************)
\* ApexOf with the slice [1:] for [-2:].
ApexOfAllButFirst(record) ==
    LET parts == Split(record, ".")
    IN  Join(IF Len(parts) <= 1 THEN parts ELSE Tail(parts), ".")

\* domain = ".".join(record.split(".")[-2:])
ApexOf(record) == Join(LastTwo(Split(record, ".")), ".")

\* self.config['dns_records'].setdefault(domain, {})[record] = ip
GroupRecord(dns, record, ip) ==
    LET domain == ApexOf(record)
        d1     == SetDefault(dns, domain, <<>>)
    IN  Put(d1, domain, Put(Get(d1, domain), record, ip))

\* for record, ip in records.items(): ...
RECURSIVE OrganizeRecords(_, _)
OrganizeRecords(dns, records) ==
    IF records = <<>> THEN dns
    ELSE OrganizeRecords(GroupRecord(dns, Head(records)[1], Head(records)[2]),
                         Tail(records))

(***************************************************************************)
(* Rendering.  A text is a tuple of lines, a line a tuple of tokens.       *)
(***************************************************************************)
DigitChars == <<"0", "1", "2", "3", "4", "5", "6", "7", "8", "9">>

\* str(n) of a natural number
RECURSIVE Digits(_)
Digits(n) == IF n < 10 THEN <<DigitChars[n + 1]>>
             ELSE Digits(n \div 10) \o <<DigitChars[(n % 10) + 1]>>

\* int(now.strftime("%Y%m%d%H"))
GetSerial(now) == now.y * 1000000 + now.m * 10000 + now.d * 100 + now.h

\* one line of _generate_zone_entries
ZoneEntry(domain) ==
    <<"zone \"">> \o domain \o <<"\" { type master; file \"/etc/bind/db.">>
                  \o domain \o <<"\"; };">>

\* "\n".join(... for domain in dns_records): the lines of the join
GenerateZoneEntries(dns) ==
    IF dns = <<>> THEN << <<>> >>
    ELSE [i \in 1..Len(dns) |-> ZoneEntry(dns[i][1])]

\* the named.conf text of _generate_zone_files
NamedConfText(dns) ==
    << <<>>,
       <<"options {">>,
       <<"    directory \"/etc/bind\";">>,
       <<"    listen-on port 53 { any; };">>,
       <<"    allow-query { any; };">>,
       <<"    recursion no;">>,
       <<"};">>,
       <<>> >>
    \o GenerateZoneEntries(dns)
    \o << <<"            ">> >>

\* f"{record.ljust(30)} IN A {ip}"
RecordLine(record, ip) == Ljust(record, PadWidth) \o <<" IN A ">> \o ip

\* _generate_zone_file
GenerateZoneFile(dns, domain, ip, now) ==
    LET recs == Get(dns, domain)
        records == IF recs = <<>> THEN << <<>> >>
                   ELSE [i \in 1..Len(recs) |-> RecordLine(recs[i][1], recs[i][2])]
    IN  << <<"; Zone file for ">> \o domain,
           <<"$TTL 86400">>,
           <<"@ IN SOA ns.">> \o domain \o <<". admin.">> \o domain \o <<". (">>,
           <<"    ">> \o Digits(GetSerial(now)),
           <<"    3600">>,
           <<"    900">>,
           <<"    604800">>,
           <<"    86400 )">>,
           <<>>,
           <<"@       IN NS  ns.">> \o domain \o <<".">>,
           <<"ns      IN A   ">> \o ip,
           <<>> >>
        \o records
        \o << <<>> >>

\* config_dir / "named.conf" and config_dir / f"db.{domain}"
NamedConfPath == <<"/etc/bind/named.conf">>
ZonePath(domain) == <<"/etc/bind/db.">> \o domain

(***************************************************************************)
(* The world outside the program.                                          *)
(***************************************************************************)
\* What the IP lookups answer.
PublicIp  == <<"203.0.113.9">>
ErrorBody == <<"<html>503 Service Unavailable</html>">>
LocalIp   == <<"10.0.0.5">>

\* datetime.utcnow(): the UTC hour of the run.
Now == [y |-> 2026, m |-> 11, d |-> 2, h |-> 9]

\* The configuration directory as a previous run left it.
StaleFiles ==
    (NamedConfPath :> << <<"stale">> >>) @@ (ZonePath(<<"o", ".", "c">>) :> << <<"stale">> >>)

\* The reserved container name.
DnsServer == "dns-server"

Named(cs, name) == {c \in cs : c.name = name}

\* The name slot before the run: absent, running or stopped.  Another
\* container is always there.
OtherContainer == [id |-> 1, name |-> "other", status |-> "running"]
InitialContainers ==
    { {OtherContainer},
      {OtherContainer, [id |-> 2, name |-> DnsServer, status |-> "running"]},
      {OtherContainer, [id |-> 2, name |-> DnsServer, status |-> "exited"]} }

\* The engine never gives an id a second time.
NewId(cs) ==
    LET used == {c.id : c \in cs \cup UNION InitialContainers}
    IN  1 + CHOOSE n \in used : \A m \in used : m <= n

\* The engine's container removal: a running container needs force.
DaemonRemove(cs, id, force) ==
    LET c == CHOOSE x \in cs : x.id = id
    IN  IF c.status = "running" /\ ~force
        THEN [ok |-> FALSE, containers |-> cs]
        ELSE [ok |-> TRUE, containers |-> cs \ {c}]

\* The engine's create-and-start: names are unique; a container that was
\* created but failed to start stays, in state "created".
DaemonRun(cs, name, outcome) ==
    IF Named(cs, name) # {} \/ outcome = "create_error"
    THEN [ok |-> FALSE, containers |-> cs]
    ELSE IF outcome = "start_error"
    THEN [ok |-> FALSE,
          containers |-> cs \cup {[id |-> NewId(cs), name |-> name, status |-> "created"]}]
    ELSE [ok |-> TRUE,
          containers |-> cs \cup {[id |-> NewId(cs), name |-> name, status |-> "running"]}]

(***************************************************************************)
(* State.                                                                  *)
(***************************************************************************)
VARIABLES
    args,           \* sys.argv[1:]
    records,        \* main's records dict
    pc,             \* the statement the run is at
    public_ip,      \* self.public_ip
    client,         \* self.client is set
    dns_records,    \* self.config['dns_records']
    attempt,        \* the loop variable of _pull_bind_image
    zone_idx,       \* position of the loop over dns_records in _generate_zone_files
    old_container,  \* id of old_container in _start_container (0: none)
    ret,            \* what start returned (<<>>: nothing)
    files,          \* the file system: path -> text
    containers,     \* the engine's containers
    out,            \* the messages printed
    err,            \* the exception that ended the run
    exit_status,    \* <<>> while running, <<status>> once exited
    trace,          \* the steps performed, in order
    pulls,          \* the outcomes of the pull attempts, in order
    written         \* the files written in this run: path -> text written

vars == <<args, records, pc, public_ip, client, dns_records, attempt, zone_idx,
          old_container, ret, files, containers, out, err, exit_status,
          trace, pulls, written>>

Empty == [x \in {} |-> x]

Init ==
    /\ args \in ArgLists
    /\ records = <<>>
    /\ pc = "parse"
    /\ public_ip = <<"None">>
    /\ client = FALSE
    /\ dns_records = <<>>
    /\ attempt = 0
    /\ zone_idx = 0
    /\ old_container = 0
    /\ ret = <<>>
    /\ files = StaleFiles
    /\ containers \in InitialContainers
    /\ out = <<>>
    /\ err = NoError
    /\ exit_status = <<>>
    /\ trace = <<>>
    /\ pulls = <<>>
    /\ written = Empty

(***************************************************************************)
(* Exception handlers.                                                     *)
(***************************************************************************)
Exc(type, msg) == [type |-> type, msg |-> msg]

\* The handler of start without its sys.exit(1): start returns None and
\* main goes on.
FailInStartNoExit(e, printed) ==
    /\ err' = e
    /\ out' = Append(printed, "error")
    /\ UNCHANGED exit_status
    /\ pc' = "report"

\* start, except (DNSConfigError, DockerError): print the error, sys.exit(1).
\* printed: what the run has printed so far.
FailInStart(e, printed) ==
    /\ err' = e
    /\ out' = Append(printed, "error")
    /\ exit_status' = <<1>>
    /\ pc' = "exited"

\* FailInMain with every exception of main ending the run with status 1.
FailInMainExitsOne(e, printed) ==
    /\ err' = e
    /\ out' = Append(printed, IF e.type = "ValueError" THEN "invalid_input"
                                                       ELSE "unexpected_error")
    /\ exit_status' = <<1>>
    /\ pc' = "exited"

\* main, except ValueError: exit 2; except Exception: exit 1.
FailInMain(e, printed) ==
    /\ err' = e
    /\ out' = Append(printed, IF e.type = "ValueError" THEN "invalid_input"
                                                       ELSE "unexpected_error")
    /\ exit_status' = IF e.type = "ValueError" THEN <<2>> ELSE <<1>>
    /\ pc' = "exited"

\* StageAfter with the files generated before the runtime is set up and
\* the image pulled.
StageAfterFilesFirst(p) ==
    CASE p = "get_ip"       -> "organize"
      [] p = "organize"     -> "mkdir"
      [] p = "write_zone"   -> "setup_docker"
      [] p = "setup_docker" -> "from_env"
      [] p = "from_env"     -> "pull"
      [] p = "pull"         -> "get_old"
      [] p = "run"          -> "return"

\* StageAfter with _start_container called before the records are organized
\* and the files generated.
StageAfterReplaceBeforeWrite(p) ==
    CASE p = "get_ip"       -> "setup_docker"
      [] p = "setup_docker" -> "from_env"
      [] p = "from_env"     -> "pull"
      [] p = "pull"         -> "get_old"
      [] p = "run"          -> "organize"
      [] p = "organize"     -> "mkdir"
      [] p = "write_zone"   -> "return"

\* The order of the statements of start's try block: the statement that
\* follows the one ending at p.
StageAfter(p) ==
    CASE p = "get_ip"       -> "setup_docker"
      [] p = "setup_docker" -> "from_env"
      [] p = "from_env"     -> "pull"
      [] p = "pull"         -> "organize"
      [] p = "organize"     -> "mkdir"
      [] p = "write_zone"   -> "get_old"
      [] p = "run"          -> "return"

(***************************************************************************)
(* main: argument parsing.                                                 *)
(***************************************************************************)
ParseArgs ==
    /\ pc = "parse"
    /\ LET r == ParseEntries(args, <<>>)
       IN  /\ records' = r.records
           /\ IF r.error # NoError
              THEN FailInMain(r.error, out)
              ELSE /\ pc' = "get_ip"
                   /\ UNCHANGED <<out, err, exit_status>>
    /\ UNCHANGED <<args, public_ip, client, dns_records, attempt, zone_idx,
                   old_container, ret, files, containers, trace, pulls,
                   written>>

(***************************************************************************)
(* start: self.public_ip = self._get_public_ip()                           *)
(***************************************************************************)
\* What _get_public_ip does for an outcome of the HTTP query and of the
\* shell command: the calls it makes and the text it returns (or raises).
\*   requests.get raises only on a transport failure: it returns the body
\*   of a non-2xx answer like any other body.
\*   "curl -4 ifconfig.co || hostname -I | awk '{print $1}'" exits with the
\*   status of curl when curl succeeds and of awk otherwise.
PublicIpLookup(http, shell) ==
    CASE http = "ok"     -> [calls |-> <<"http_get">>, raised |-> FALSE, text |-> PublicIp]
      [] http = "non2xx" -> [calls |-> <<"http_get">>, raised |-> FALSE, text |-> ErrorBody]
      [] http = "exception" ->
            CASE shell = "curl_ok" ->
                    [calls |-> <<"http_get", "curl">>, raised |-> FALSE, text |-> PublicIp]
              [] shell = "hostname_ok" ->
                    [calls |-> <<"http_get", "curl", "hostname">>, raised |-> FALSE,
                     text |-> LocalIp]
              [] shell = "hostname_failed" ->
                    [calls |-> <<"http_get", "curl", "hostname">>, raised |-> FALSE,
                     text |-> <<>>]
              [] shell = "awk_failed" ->
                    [calls |-> <<"http_get", "curl", "hostname">>, raised |-> TRUE,
                     text |-> <<>>]

GetPublicIp ==
    /\ pc = "get_ip"
    /\ \E http \in {"ok", "non2xx", "exception"},
          shell \in {"curl_ok", "hostname_ok", "hostname_failed", "awk_failed"} :
          LET r == PublicIpLookup(http, shell)
          IN  /\ trace' = trace \o r.calls
              /\ IF r.raised
                 THEN /\ FailInStart(Exc("DNSConfigError",
                                         "Failed to determine public IP address"), out)
                      /\ UNCHANGED public_ip
                 ELSE /\ public_ip' = r.text
                      /\ out' = Append(out, "public_ip_detected")
                      /\ pc' = StageAfter("get_ip")
                      /\ UNCHANGED <<err, exit_status>>
    /\ UNCHANGED <<args, records, client, dns_records, attempt, zone_idx,
                   old_container, ret, files, containers, pulls, written>>

(***************************************************************************)
(* start: self._setup_docker()                                             *)
(***************************************************************************)
\* The commands _setup_docker runs for an outcome, and whether it raises.
DockerSetup(outcome) ==
    CASE outcome = "ps_ok" ->
            [calls |-> <<"docker_ps">>, raised |-> FALSE]
      [] outcome = "installed" ->
            [calls |-> <<"docker_ps", "install", "enable">>, raised |-> FALSE]
      [] outcome = "install_failed" ->
            [calls |-> <<"docker_ps", "install">>, raised |-> TRUE]
      [] outcome = "enable_failed" ->
            [calls |-> <<"docker_ps", "install", "enable">>, raised |-> TRUE]

SetupDocker ==
    /\ pc = "setup_docker"
    /\ \E outcome \in {"ps_ok", "installed", "install_failed", "enable_failed"} :
          LET r == DockerSetup(outcome)
              printed == IF outcome = "ps_ok" THEN out ELSE Append(out, "installing")
          IN  /\ trace' = trace \o r.calls
              /\ IF r.raised
                 THEN FailInStart(Exc("DockerError", "Docker installation failed"),
                                  printed)
                 ELSE /\ out' = printed
                      /\ pc' = StageAfter("setup_docker")
                      /\ UNCHANGED <<err, exit_status>>
    /\ UNCHANGED <<args, records, public_ip, client, dns_records, attempt,
                   zone_idx, old_container, ret, files, containers, pulls,
                   written>>

(***************************************************************************)
(* start: self.client = docker.from_env()                                  *)
(***************************************************************************)
\* A DockerException of from_env is neither DNSConfigError nor DockerError:
\* it leaves start and is caught by main's "except Exception".
FromEnv ==
    /\ pc = "from_env"
    /\ trace' = Append(trace, "from_env")
    /\ \E outcome \in {"ok", "error"} :
          IF outcome = "ok"
          THEN /\ client' = TRUE
               /\ pc' = StageAfter("from_env")
               /\ UNCHANGED <<out, err, exit_status>>
          ELSE /\ FailInMain(Exc("DockerException", "from_env"), out)
               /\ UNCHANGED client
    /\ UNCHANGED <<args, records, public_ip, dns_records, attempt, zone_idx,
                   old_container, ret, files, containers, pulls, written>>

(***************************************************************************)
(* start: self._pull_bind_image()                                          *)
(***************************************************************************)
\* PullStep with the last attempt tested as "attempt == max_retries".
PullStepOffByOne(att, outcome) ==
    CASE outcome = "ok"          -> "return"
      [] outcome = "not_found"   -> "raise_not_found"
      [] outcome = "api_error"   -> IF att = max_retries THEN "raise_failed"
                                                         ELSE "retry"
      [] outcome = "other_error" -> "propagate"

\* PullStep with ImageNotFound handled by the APIError clause.
PullStepRetryNotFound(att, outcome) ==
    CASE outcome = "ok"          -> "return"
      [] outcome \in {"not_found", "api_error"} ->
            IF att = max_retries - 1 THEN "raise_failed" ELSE "retry"
      [] outcome = "other_error" -> "propagate"

\* PullStep without the return after a successful pull.
PullStepNoReturn(att, outcome) ==
    CASE outcome = "ok"          -> "retry"
      [] outcome = "not_found"   -> "raise_not_found"
      [] outcome = "api_error"   -> IF att = max_retries - 1 THEN "raise_failed"
                                                             ELSE "retry"
      [] outcome = "other_error" -> "propagate"

\* What one iteration of the retry loop does with the outcome of
\* client.images.pull: ImageNotFound is caught before APIError.
PullStep(att, outcome) ==
    CASE outcome = "ok"          -> "return"
      [] outcome = "not_found"   -> "raise_not_found"
      [] outcome = "api_error"   -> IF att = max_retries - 1 THEN "raise_failed"
                                                             ELSE "retry"
      [] outcome = "other_error" -> "propagate"

PullImage ==
    /\ pc = "pull"
    /\ \E outcome \in {"ok", "not_found", "api_error", "other_error"} :
          LET step == PullStep(attempt, outcome)
          IN  /\ pulls' = Append(pulls, outcome)
              /\ trace' = Append(trace, "pull")
              /\ CASE step = "return" ->
                        /\ pc' = StageAfter("pull")
                        /\ UNCHANGED <<attempt, out, err, exit_status>>
                   [] step = "raise_not_found" ->
                        /\ FailInStart(Exc("DockerError", "Image not found"), out)
                        /\ UNCHANGED attempt
                   [] step = "raise_failed" ->
                        /\ FailInStart(Exc("DockerError", "Failed to pull image"), out)
                        /\ UNCHANGED attempt
                   [] step = "propagate" ->
                        /\ FailInMain(Exc("Exception", "pull"), out)
                        /\ UNCHANGED attempt
                   [] step = "retry" ->
                        /\ out' = Append(out, "retrying")
                        /\ attempt' = attempt + 1
                        \* for attempt in range(max_retries): the loop ends
                        \* after the last iteration
                        /\ pc' = IF attempt + 1 < max_retries THEN "pull"
                                                              ELSE StageAfter("pull")
                        /\ UNCHANGED <<err, exit_status>>
    /\ UNCHANGED <<args, records, public_ip, client, dns_records, zone_idx,
                   old_container, ret, files, containers, written>>

(***************************************************************************)
(* start: organize records by domain.                                      *)
(***************************************************************************)
Organize ==
    /\ pc = "organize"
    /\ dns_records' = OrganizeRecords(dns_records, records)
    /\ trace' = Append(trace, "organize")
    /\ pc' = StageAfter("organize")
    /\ UNCHANGED <<args, records, public_ip, client, attempt, zone_idx,
                   old_container, ret, files, containers, out, err,
                   exit_status, pulls, written>>

(***************************************************************************)
(* start: self._generate_zone_files()                                      *)
(***************************************************************************)
\* except PermissionError / except OSError of _generate_zone_files
FileError(outcome) ==
    IF outcome = "permission_error"
    THEN Exc("DNSConfigError", "Permission denied")
    ELSE Exc("DNSConfigError", "File system error")

\* Path.write_text: the file holds the text afterwards; a write refused
\* on opening (PermissionError) leaves the file alone, one that fails after
\* opening (OSError, as on a full disk) leaves it empty.
WriteText(fs, path, text, outcome) ==
    CASE outcome = "ok"               -> (path :> text) @@ fs
      [] outcome = "permission_error" -> fs
      [] outcome = "os_error"         -> (path :> <<>>) @@ fs

WriteOutcomes == {"ok", "permission_error", "os_error"}

\* config_dir.mkdir(parents=True, exist_ok=True)
Mkdir ==
    /\ pc = "mkdir"
    /\ trace' = Append(trace, "mkdir")
    /\ \E outcome \in {"ok", "permission_error", "os_error"} :
          IF outcome = "ok"
          THEN /\ pc' = "write_conf"
               /\ UNCHANGED <<out, err, exit_status>>
          ELSE FailInStart(FileError(outcome), out)
    /\ UNCHANGED <<args, records, public_ip, client, dns_records, attempt,
                   zone_idx, old_container, ret, files, containers, pulls,
                   written>>

\* (config_dir / "named.conf").write_text(named_conf)
WriteNamedConf ==
    /\ pc = "write_conf"
    /\ trace' = Append(trace, "write_conf")
    /\ \E outcome \in WriteOutcomes :
          LET text == NamedConfText(dns_records)
          IN  /\ files' = WriteText(files, NamedConfPath, text, outcome)
              /\ IF outcome = "ok"
                 THEN /\ written' = (NamedConfPath :> text) @@ written
                      /\ IF dns_records = <<>>
                         THEN pc' = StageAfter("write_zone") /\ UNCHANGED zone_idx
                         ELSE pc' = "write_zone" /\ zone_idx' = 1
                      /\ UNCHANGED <<out, err, exit_status>>
                 ELSE /\ FailInStart(FileError(outcome), out)
                      /\ UNCHANGED <<written, zone_idx>>
    /\ UNCHANGED <<args, records, public_ip, client, dns_records, attempt,
                   old_container, ret, containers, pulls>>

\* WriteZoneFile with the loop left after its first iteration.
WriteZoneFileFirstOnly ==
    /\ pc = "write_zone"
    /\ trace' = Append(trace, "write_zone")
    /\ \E outcome \in WriteOutcomes :
          LET domain == dns_records[zone_idx][1]
              text   == GenerateZoneFile(dns_records, domain, public_ip, Now)
          IN  /\ files' = WriteText(files, ZonePath(domain), text, outcome)
              /\ IF outcome = "ok"
                 THEN /\ written' = (ZonePath(domain) :> text) @@ written
                      /\ pc' = StageAfter("write_zone")
                      /\ UNCHANGED <<zone_idx, out, err, exit_status>>
                 ELSE /\ FailInStart(FileError(outcome), out)
                      /\ UNCHANGED <<written, zone_idx>>
    /\ UNCHANGED <<args, records, public_ip, client, dns_records, attempt,
                   old_container, ret, containers, pulls>>

\* for domain in dns_records: (config_dir / f"db.{domain}").write_text(...)
\* one iteration
WriteZoneFile ==
    /\ pc = "write_zone"
    /\ trace' = Append(trace, "write_zone")
    /\ \E outcome \in WriteOutcomes :
          LET domain == dns_records[zone_idx][1]
              text   == GenerateZoneFile(dns_records, domain, public_ip, Now)
          IN  /\ files' = WriteText(files, ZonePath(domain), text, outcome)
              /\ IF outcome = "ok"
                 THEN /\ written' = (ZonePath(domain) :> text) @@ written
                      /\ IF zone_idx < Len(dns_records)
                         THEN zone_idx' = zone_idx + 1 /\ pc' = "write_zone"
                         ELSE pc' = StageAfter("write_zone") /\ UNCHANGED zone_idx
                      /\ UNCHANGED <<out, err, exit_status>>
                 ELSE /\ FailInStart(FileError(outcome), out)
                      /\ UNCHANGED <<written, zone_idx>>
    /\ UNCHANGED <<args, records, public_ip, client, dns_records, attempt,
                   old_container, ret, containers, pulls>>

(***************************************************************************)
(* start: self._start_container()                                          *)
(***************************************************************************)
\* _start_container without the cleanup of an existing container.
GetOldContainerNoCleanup ==
    /\ pc = "get_old"
    /\ trace' = Append(trace, "get")
    /\ pc' = "run"
    /\ UNCHANGED <<args, records, public_ip, client, dns_records, attempt,
                   zone_idx, old_container, ret, files, containers, out,
                   err, exit_status, pulls, written>>

\* old_container = self.client.containers.get("dns-server")
\* except docker.errors.NotFound: pass
GetOldContainer ==
    /\ pc = "get_old"
    /\ trace' = Append(trace, "get")
    /\ \E outcome \in {"answer", "api_error"} :
          IF outcome = "api_error"
          THEN /\ FailInStart(Exc("DockerError", "Docker API error"), out)
               /\ UNCHANGED old_container
          ELSE /\ IF Named(containers, DnsServer) = {}
                  THEN pc' = "run" /\ UNCHANGED old_container
                  ELSE /\ pc' = "remove_old"
                       /\ old_container' =
                             (CHOOSE c \in Named(containers, DnsServer) : TRUE).id
               /\ UNCHANGED <<out, err, exit_status>>
    /\ UNCHANGED <<args, records, public_ip, client, dns_records, attempt,
                   zone_idx, ret, files, containers, pulls, written>>

\* old_container.remove(force=True)
RemoveOldContainer ==
    /\ pc = "remove_old"
    /\ trace' = Append(trace, "remove")
    /\ \E outcome \in {"ok", "api_error"} :
          LET r == DaemonRemove(containers, old_container, TRUE)
          IN  IF outcome = "ok" /\ r.ok
              THEN /\ containers' = r.containers
                   /\ pc' = "run"
                   /\ UNCHANGED <<out, err, exit_status>>
              ELSE /\ FailInStart(Exc("DockerError", "Docker API error"), out)
                   /\ UNCHANGED containers
    /\ UNCHANGED <<args, records, public_ip, client, dns_records, attempt,
                   zone_idx, old_container, ret, files, pulls, written>>

\* RunContainer with a failed launch undoing the files of this run.
RunContainerRollback ==
    /\ pc = "run"
    /\ trace' = Append(trace, "run")
    /\ \E outcome \in {"ok", "create_error", "start_error"} :
          LET r == DaemonRun(containers, DnsServer, outcome)
          IN  /\ containers' = r.containers
              /\ IF r.ok
                 THEN /\ pc' = StageAfter("run")
                      /\ UNCHANGED <<out, err, exit_status, files>>
                 ELSE /\ FailInStart(Exc("DockerError", "Docker API error"), out)
                      /\ files' = [path \in DOMAIN files \ DOMAIN written |->
                                       files[path]]
    /\ UNCHANGED <<args, records, public_ip, client, dns_records, attempt,
                   zone_idx, old_container, ret, pulls, written>>

\* RunContainer with a failed launch putting the removed container back.
RunContainerRestoresOld ==
    /\ pc = "run"
    /\ trace' = Append(trace, "run")
    /\ \E outcome \in {"ok", "create_error", "start_error"} :
          LET r == DaemonRun(containers, DnsServer, outcome)
          IN  IF r.ok
              THEN /\ containers' = r.containers
                   /\ pc' = StageAfter("run")
                   /\ UNCHANGED <<out, err, exit_status>>
              ELSE /\ containers' =
                         IF old_container = 0 THEN r.containers
                         ELSE {c \in r.containers : c.name # DnsServer} \cup
                              {[id |-> old_container, name |-> DnsServer,
                                status |-> "running"]}
                   /\ FailInStart(Exc("DockerError", "Docker API error"), out)
    /\ UNCHANGED <<args, records, public_ip, client, dns_records, attempt,
                   zone_idx, old_container, ret, files, pulls, written>>

\* self.client.containers.run(..., detach=True, name="dns-server", ...)
RunContainer ==
    /\ pc = "run"
    /\ trace' = Append(trace, "run")
    /\ \E outcome \in {"ok", "create_error", "start_error"} :
          LET r == DaemonRun(containers, DnsServer, outcome)
          IN  /\ containers' = r.containers
              /\ IF r.ok
                 THEN /\ pc' = StageAfter("run")
                      /\ UNCHANGED <<out, err, exit_status>>
                 ELSE FailInStart(Exc("DockerError", "Docker API error"), out)
    /\ UNCHANGED <<args, records, public_ip, client, dns_records, attempt,
                   zone_idx, old_container, ret, files, pulls, written>>

\* return self.public_ip
Return ==
    /\ pc = "return"
    /\ ret' = <<public_ip>>
    /\ pc' = "report"
    /\ UNCHANGED <<args, records, public_ip, client, dns_records, attempt,
                   zone_idx, old_container, files, containers, out, err,
                   exit_status, trace, pulls, written>>

(***************************************************************************)
(* main: the success report.                                               *)
(***************************************************************************)
ReportSuccess ==
    /\ pc = "report"
    /\ out' = Append(out, "success")
    /\ exit_status' = <<0>>
    /\ pc' = "exited"
    /\ UNCHANGED <<args, records, public_ip, client, dns_records, attempt,
                   zone_idx, old_container, ret, files, containers, err,
                   trace, pulls, written>>

(***************************************************************************)
(* KeyboardInterrupt.                                                      *)
(***************************************************************************)
InStart == pc \in {"get_ip", "setup_docker", "from_env", "pull", "organize",
                   "mkdir", "write_conf", "write_zone", "get_old", "remove_old",
                   "run", "return"}

\* Interrupt with KeyboardInterrupt handled like an error: sys.exit(1).
InterruptExitsOne ==
    /\ InStart
    /\ err' = Exc("KeyboardInterrupt", "none")
    /\ out' = Append(out, "cancelled")
    /\ exit_status' = <<1>>
    /\ pc' = "exited"
    /\ UNCHANGED <<args, records, public_ip, client, dns_records, attempt,
                   zone_idx, old_container, ret, files, containers, trace,
                   pulls, written>>

\* start, except KeyboardInterrupt: sys.exit(130)
Interrupt ==
    /\ InStart
    /\ err' = Exc("KeyboardInterrupt", "none")
    /\ out' = Append(out, "cancelled")
    /\ exit_status' = <<130>>
    /\ pc' = "exited"
    /\ UNCHANGED <<args, records, public_ip, client, dns_records, attempt,
                   zone_idx, old_container, ret, files, containers, trace,
                   pulls, written>>

Next ==
    \/ Interrupt
    \/ ParseArgs
    \/ GetPublicIp
    \/ SetupDocker
    \/ FromEnv
    \/ PullImage
    \/ Organize
    \/ Mkdir
    \/ WriteNamedConf
    \/ WriteZoneFile
    \/ GetOldContainer
    \/ RemoveOldContainer
    \/ RunContainer
    \/ Return
    \/ ReportSuccess

Spec == Init /\ [][Next]_vars

\* The run keeps executing until it exits.  The runs of two argument lists,
\* one with a single zone and one with two.
FairInit ==
    /\ Init
    /\ args \in { <<HostA \o <<"=">> \o Ip1>>,
                  <<HostA \o <<"=">> \o Ip1, HostF \o <<"=">> \o Ip2>> }

FairSpec == FairInit /\ [][Next]_vars /\ WF_vars(Next)

(***************************************************************************)
(* A caller that keeps the DNSServerManager object and calls start again.  *)
(***************************************************************************)
\* The records of a later call: one entry, of the first zone or of another.
LaterRecords ==
    { << <<HostB, Ip1>> >>, << <<HostF, Ip2>> >> }

\* manager.start(records) once more, after a call that returned.  __init__
\* is not run again: self.config, self.client and self.public_ip are those
\* the first call left; the locals of start and of its callees are new.
\* "written" and "pulls" begin again with the call.
StartAgain ==
    /\ pc = "report"
    /\ \A i \in 1..Len(trace) : trace[i] # "start_again"
    /\ records' \in LaterRecords
    /\ trace' = Append(trace, "start_again")
    /\ pc' = "get_ip"
    /\ attempt' = 0
    /\ zone_idx' = 0
    /\ old_container' = 0
    /\ ret' = <<>>
    /\ pulls' = <<>>
    /\ written' = Empty
    /\ UNCHANGED <<args, public_ip, client, dns_records, files, containers,
                   out, err, exit_status>>

ReuseInit ==
    /\ Init
    /\ args = <<HostA \o <<"=">> \o Ip1>>
    /\ containers = {OtherContainer}

ReuseNext == StartAgain \/ Next

ReuseSpec == ReuseInit /\ [][ReuseNext]_vars

(***************************************************************************)
(* Properties.                                                             *)
(***************************************************************************)
Last(s) == s[Len(s)]

Occurs(s, x) == \E i \in 1..Len(s) : s[i] = x

CountOf(s, x) == Cardinality({i \in 1..Len(s) : s[i] = x})

\* _start_container has returned normally.
StartContainerDone ==
    /\ trace # <<>>
    /\ Last(trace) = "run"
    /\ err.type # "DockerError"

\* The pull stage has raised DockerError.
PullRaisedDockerError ==
    /\ trace # <<>>
    /\ Last(trace) = "pull"
    /\ err.type = "DockerError"

\* C1: once _start_container has completed, exactly one container named
\* "dns-server" exists, it is the newly launched one and not the one that
\* was there before; the launch is attempted only with the name free,
\* whether the name was free, held by a running or by a stopped container.
C1_ContainerReplaced ==
    /\ StartContainerDone =>
          /\ Cardinality(Named(containers, DnsServer)) = 1
          /\ \A c \in Named(containers, DnsServer) :
                /\ c.status = "running"
                /\ \A i \in UNION InitialContainers : c.id # i.id
          /\ OtherContainer \in containers
    /\ pc = "run" => Named(containers, DnsServer) = {}
    /\ pc = "remove_old" =>
          \E c \in Named(containers, DnsServer) : c.id = old_container

C1_Witness ==
    /\ StartContainerDone
    /\ old_container = 2
    /\ Occurs(trace, "remove")
    /\ Cardinality(Named(containers, DnsServer)) = 1

\* C2 as stated: at most max_retries attempts, a retry only after a
\* transient API error, and DockerError from the pull exactly when the
\* third attempt fails with a transient API error.
C2_Original ==
    /\ Len(pulls) <= max_retries
    /\ \A i \in 1..(Len(pulls) - 1) : pulls[i] = "api_error"
    /\ PullRaisedDockerError <=>
          (Len(pulls) = max_retries /\ pulls[max_retries] = "api_error")

\* C2 amended: at most max_retries attempts, a retry only after a transient
\* API error, and DockerError from the pull exactly when the third attempt
\* fails with a transient API error or an attempt answers image-not-found.
C2_BoundedRetry ==
    /\ Len(pulls) <= max_retries
    /\ \A i \in 1..(Len(pulls) - 1) : pulls[i] = "api_error"
    /\ PullRaisedDockerError <=>
          \/ Len(pulls) = max_retries /\ pulls[max_retries] = "api_error"
          \/ pulls # <<>> /\ Last(pulls) = "not_found"
    /\ (pulls # <<>> /\ Last(pulls) = "api_error" /\ Len(pulls) = max_retries)
          => /\ pc = "exited"
             /\ err = Exc("DockerError", "Failed to pull image")

C2_Witness ==
    /\ pulls = <<"api_error", "api_error", "api_error">>
    /\ PullRaisedDockerError

\* The stages that follow the image pull have left no mark.
NothingAfterPull ==
    /\ dns_records = <<>>
    /\ written = Empty
    /\ files = StaleFiles
    /\ containers \in InitialContainers
    /\ Last(trace) = "pull"
    /\ \A i \in 1..Len(trace) :
          trace[i] \notin {"organize", "mkdir", "write_conf", "write_zone",
                           "get", "remove", "run"}

\* C3: an image-not-found answer, on whichever attempt, is the last pull
\* attempt of the run: the run has ended with DockerError "Image not found"
\* and no later stage has run.
C3_NotFoundNotRetried ==
    \A i \in 1..Len(pulls) :
        pulls[i] = "not_found" =>
            /\ i = Len(pulls)
            /\ pc = "exited"
            /\ err = Exc("DockerError", "Image not found")
            /\ exit_status = <<1>>
            /\ NothingAfterPull

C3_Witness ==
    /\ pulls = <<"api_error", "api_error", "not_found">>
    /\ pc = "exited"

\* The run is over without a launch: a later stage failed or the run was
\* interrupted.
EndedInFailure == pc = "exited" /\ exit_status # <<0>>

PullSucceeded == pulls # <<>> /\ Last(pulls) = "ok"

\* C4: a pull that succeeds after k = 0, 1 or 2 transient failures is the
\* only successful pull and the last attempt, and from then on the run goes
\* on until the container is launched, unless a later stage fails.
C4_PullSuccessProceeds ==
    /\ [](\A i \in 1..Len(pulls) :
            pulls[i] = "ok" =>
                /\ i = Len(pulls)
                /\ i <= max_retries
                /\ \A j \in 1..(i - 1) : pulls[j] = "api_error"
                /\ pc # "pull")
    /\ (PullSucceeded ~> (StartContainerDone \/ EndedInFailure))

C4_Witness ==
    /\ pulls = <<"api_error", "api_error", "ok">>
    /\ StartContainerDone
    /\ exit_status = <<0>>

(***************************************************************************)
(* Records as the data model defines them.                                 *)
(***************************************************************************)
AllEntriesHaveEquals == \A i \in 1..Len(args) : Contains(args[i], "=")

\* The hostname and the IP an entry "hostname=ip" gives.
EntryHost(e) == Strip(SplitOnce(e, "=")[1])
EntryIp(e)   == Strip(SplitOnce(e, "=")[2])

DotsOf(h) == {i \in 1..Len(h) : h[i] = "."}

\* A hostname has two labels at least.
ValidHostname(h) == Cardinality(DotsOf(h)) >= 1

\* The last two labels of a hostname: what follows its last dot but one.
LastTwoLabels(h) ==
    IF Cardinality(DotsOf(h)) < 2 THEN h
    ELSE LET k == CHOOSE d \in DotsOf(h) :
                      Cardinality({j \in DotsOf(h) : j > d}) = 1
         IN  SubSeq(h, k + 1, Len(h))

IsDigit(c) == \E d \in 1..10 : DigitChars[d] = c

DigitValue(c) == (CHOOSE d \in 1..10 : DigitChars[d] = c) - 1

\* The number an octet of one to three digits denotes.
OctetValue(o) ==
    IF Len(o) = 1 THEN DigitValue(o[1])
    ELSE IF Len(o) = 2 THEN 10 * DigitValue(o[1]) + DigitValue(o[2])
    ELSE 100 * DigitValue(o[1]) + 10 * DigitValue(o[2]) + DigitValue(o[3])

\* A dotted quad: four octets, each 0..255.
ValidIp(ip) ==
    LET octets == Split(ip, ".")
    IN  /\ Len(octets) = 4
        /\ \A k \in 1..4 :
              /\ Len(octets[k]) \in 1..3
              /\ \A j \in 1..Len(octets[k]) : IsDigit(octets[k][j])
              /\ OctetValue(octets[k]) <= 255

InvalidRecordGiven ==
    /\ AllEntriesHaveEquals
    /\ \E i \in 1..Len(args) :
          \/ ~ValidHostname(EntryHost(args[i]))
          \/ ~ValidIp(EntryIp(args[i]))

ValidInput ==
    /\ AllEntriesHaveEquals
    /\ \A i \in 1..Len(args) :
          /\ ValidHostname(EntryHost(args[i]))
          /\ ValidIp(EntryIp(args[i]))

\* The A record lines of a zone text, their name and their address.
IsRecordLine(line) == Occurs(line, " IN A ")
RecordName(line)   == Strip(SubSeq(line, 1, IndexOf(line, " IN A ") - 1))
RecordIp(line)     == SubSeq(line, IndexOf(line, " IN A ") + 1, Len(line))

RecordLinesFor(text, h) ==
    {n \in 1..Len(text) : IsRecordLine(text[n]) /\ RecordName(text[n]) = h}

\* The zone stanzas of a named.conf text.
StanzaLines(text) ==
    {n \in 1..Len(text) : text[n] # <<>> /\ text[n][1] = "zone \""}

\* C5: with a hostname of fewer than two labels or a malformed IP among the
\* entries, the run writes no file, launches no container and does not end
\* in success.
C5_InvalidRejected ==
    InvalidRecordGiven =>
        /\ written = Empty
        /\ files = StaleFiles
        /\ ~Occurs(trace, "run")
        /\ exit_status # <<0>>

\* The step named has just been performed, and has succeeded.
JustDone(step) == trace # <<>> /\ Last(trace) = step /\ pc # "exited"

\* C6: the zone file of a hostname's apex domain, when it has been written,
\* holds exactly one A record line for the hostname, with the IP of the
\* hostname's last entry.
C6_LastWriteWins ==
    JustDone("write_zone") =>
        \A i \in 1..Len(args) :
            LET h    == EntryHost(args[i])
                path == ZonePath(LastTwoLabels(h))
                last == CHOOSE j \in 1..Len(args) :
                            /\ EntryHost(args[j]) = h
                            /\ \A k \in (j+1)..Len(args) : EntryHost(args[k]) # h
            IN  path \in DOMAIN written =>
                    /\ Cardinality(RecordLinesFor(written[path], h)) = 1
                    /\ \A n \in RecordLinesFor(written[path], h) :
                          RecordIp(written[path][n]) = EntryIp(args[last])

C6_Witness ==
    /\ AllEntriesHaveEquals
    /\ \E i, j \in 1..Len(args) :
          /\ i < j
          /\ EntryHost(args[i]) = EntryHost(args[j])
          /\ EntryIp(args[i]) # EntryIp(args[j])
          /\ ZonePath(LastTwoLabels(EntryHost(args[i]))) \in DOMAIN written
    /\ exit_status = <<0>>

\* C7: for a valid input, the grouping puts every hostname in the mapping
\* of exactly one domain, its last two labels, and no domain occurs twice;
\* the named.conf written has one stanza per apex and one stanza only for
\* it, and every zone file written is the db.<apex> of a hostname.
C7_GroupedByApex ==
    /\ (JustDone("organize") /\ ValidInput) =>
          /\ \A h \in Keys(records) :
                /\ Cardinality({i \in 1..Len(dns_records) :
                                   HasKey(dns_records[i][2], h)}) = 1
                /\ \A i \in 1..Len(dns_records) :
                      HasKey(dns_records[i][2], h)
                          => dns_records[i][1] = LastTwoLabels(h)
          /\ \A i, j \in 1..Len(dns_records) :
                dns_records[i][1] = dns_records[j][1] => i = j
    /\ (JustDone("write_conf") /\ ValidInput) =>
          /\ \A h \in Keys(records) :
                CountOf(written[NamedConfPath], ZoneEntry(LastTwoLabels(h))) = 1
          /\ Cardinality(StanzaLines(written[NamedConfPath]))
                = Cardinality({LastTwoLabels(h) : h \in Keys(records)})
    /\ (JustDone("write_zone") /\ ValidInput) =>
          \A path \in DOMAIN written :
              \/ path = NamedConfPath
              \/ \E h \in Keys(records) : path = ZonePath(LastTwoLabels(h))

C7_Witness ==
    /\ ValidInput
    /\ exit_status = <<0>>
    /\ \E g, h \in Keys(records) :
          /\ g # h
          /\ LastTwoLabels(g) = LastTwoLabels(h)
          /\ \E i \in 1..Len(dns_records) :
                HasKey(dns_records[i][2], g) /\ HasKey(dns_records[i][2], h)
          /\ ZonePath(LastTwoLabels(h)) \in DOMAIN written

\* The stage a step belongs to, in the order the specification gives:
\* resolve IP, build the zone model, render and write, then the container
\* orchestration (runtime check, image pull, removal, launch).
ClaimedRank(step) ==
    CASE step \in {"http_get", "curl", "hostname"}                -> 1
      [] step = "organize"                                       -> 2
      [] step \in {"mkdir", "write_conf", "write_zone"}           -> 3
      [] step \in {"docker_ps", "install", "enable", "from_env"}  -> 4
      [] step = "pull"                                           -> 5
      [] step \in {"get", "remove"}                               -> 6
      [] step = "run"                                            -> 7

\* The stage a step belongs to, in the order of start: resolve IP, runtime
\* check, image pull, build the zone model, render and write, removal,
\* launch.
StageRank(step) ==
    CASE step \in {"http_get", "curl", "hostname"}                -> 1
      [] step \in {"docker_ps", "install", "enable", "from_env"}  -> 2
      [] step = "pull"                                           -> 3
      [] step = "organize"                                       -> 4
      [] step \in {"mkdir", "write_conf", "write_zone"}           -> 5
      [] step \in {"get", "remove"}                               -> 6
      [] step = "run"                                            -> 7

\* named.conf and the zone file of every domain have been written.
ConfigWritten ==
    /\ NamedConfPath \in DOMAIN written
    /\ \A i \in 1..Len(dns_records) : ZonePath(dns_records[i][1]) \in DOMAIN written

\* C8 as stated: the steps follow the order resolve IP, build, write,
\* runtime check, pull, removal, launch, and no step of the container
\* orchestration happens before the configuration files are written.
C8_Original ==
    /\ \A i, j \in 1..Len(trace) :
          i < j => ClaimedRank(trace[i]) <= ClaimedRank(trace[j])
    /\ (\E i \in 1..Len(trace) : ClaimedRank(trace[i]) >= 4) => ConfigWritten

\* C8 amended: the steps follow the order resolve IP, runtime check, image
\* pull, build, write, removal, launch; a stage starts only when the stage
\* before it has been completed; no container removal or launch happens
\* before the configuration files are written.
C8_StageOrder ==
    /\ trace # <<>> => StageRank(trace[1]) = 1
    /\ \A i \in 1..(Len(trace) - 1) :
          /\ StageRank(trace[i]) <= StageRank(trace[i+1])
          /\ StageRank(trace[i+1]) <= StageRank(trace[i]) + 1
    /\ trace # <<>> =>
          LET stage == StageRank(Last(trace))
          IN  /\ stage >= 2 => public_ip # <<"None">>
              /\ stage >= 3 => client
              /\ stage >= 4 => PullSucceeded
              /\ stage >= 6 => ConfigWritten
              /\ stage >= 7 => Named(containers \cap UNION InitialContainers,
                                     DnsServer) = {}

C8_Witness ==
    /\ exit_status = <<0>>
    /\ Occurs(trace, "install")
    /\ Occurs(trace, "remove")
    /\ Len(dns_records) = 2

\* Every stage has succeeded and the new container runs.
AllStagesSucceeded ==
    /\ err = NoError
    /\ public_ip # <<"None">>
    /\ client
    /\ PullSucceeded
    /\ Occurs(trace, "organize")
    /\ ConfigWritten
    /\ \A path \in DOMAIN written : files[path] = written[path]
    /\ StartContainerDone
    /\ \E c \in Named(containers, DnsServer) :
          c.status = "running" /\ c.id # old_container

\* C9: after a failure the run has ended, start has returned nothing and
\* no success is reported; start returns, success is reported and the run
\* exits with 0 only when every stage has succeeded and the new container
\* was launched, and what start returns is the resolved public IP.
C9_AbortNoFalseSuccess ==
    /\ err # NoError =>
          /\ pc = "exited"
          /\ ret = <<>>
          /\ ~Occurs(out, "success")
          /\ exit_status \in {<<1>>, <<2>>, <<130>>}
    /\ (ret # <<>> \/ Occurs(out, "success") \/ exit_status = <<0>>) =>
          /\ AllStagesSucceeded
          /\ ret = <<public_ip>>
    /\ pc = "report" => ret # <<>>

C9_Witness ==
    /\ err = Exc("DockerError", "Docker API error")
    /\ Last(trace) = "run"
    /\ ConfigWritten
    /\ exit_status = <<1>>

\* The removal of the old container or the launch of the new one has
\* failed.
ContainerStageFailed ==
    /\ pc = "exited"
    /\ err.type = "DockerError"
    /\ Last(trace) \in {"get", "remove", "run"}

\* C10: after a failed removal or launch, named.conf and every db.<apex>
\* of this run are on disk with the text written in this run, and the
\* other files are as they were.
C10_NoRollback ==
    ContainerStageFailed =>
        /\ ConfigWritten
        /\ DOMAIN files = DOMAIN written \cup DOMAIN StaleFiles
        /\ \A path \in DOMAIN written : files[path] = written[path]
        /\ \A path \in DOMAIN StaleFiles \ DOMAIN written :
              files[path] = StaleFiles[path]

C10_Witness ==
    /\ ContainerStageFailed
    /\ Last(trace) = "run"
    /\ Occurs(trace, "remove")
    /\ Len(dns_records) = 2

\* The exceptions start's first handler catches, and those that reach
\* main's "except Exception".
StartErrors == {"DNSConfigError", "DockerError"}
UnexpectedErrors == {"DockerException", "Exception"}

\* C11: a run that has ended has exactly one status, and it is 0 exactly
\* when no stage failed and the launch has been done, 1 exactly when a
\* configuration, runtime, image or persistence error or an unexpected
\* exception ended it, 2 exactly when an entry lacks '=', and 130 exactly
\* when it was interrupted; a run that has not ended has no status.
C11_ExitStatusMapping ==
    /\ exit_status \in {<<>>, <<0>>, <<1>>, <<2>>, <<130>>}
    /\ (pc = "exited") <=> (exit_status # <<>>)
    /\ pc # "exited" => err = NoError
    /\ pc = "exited" =>
          /\ (exit_status = <<0>>) <=> (err = NoError)
          /\ (exit_status = <<1>>) <=> (err.type \in StartErrors \cup UnexpectedErrors)
          /\ (exit_status = <<2>>) <=> (err.type = "ValueError")
          /\ (exit_status = <<130>>) <=> (err.type = "KeyboardInterrupt")
          /\ exit_status = <<0>> => StartContainerDone /\ Occurs(out, "success")
          /\ exit_status = <<2>> => ~AllEntriesHaveEquals /\ trace = <<>>
          /\ exit_status = <<130>> => Last(out) = "cancelled"

\* The run is interrupted between the removal of the old container and the
\* launch of the new one.
C11_Witness ==
    /\ exit_status = <<130>>
    /\ err.type = "KeyboardInterrupt"
    /\ trace # <<>>
    /\ Last(trace) = "remove"

\* The error kinds of the specification.
ErrorKinds == {"record_format", "ip_discovery", "runtime", "image", "persistence"}

\* The kind of the error that ended the run ("none": not one of the five).
ErrorKind(e) ==
    CASE e.type = "ValueError" -> "record_format"
      [] e = Exc("DNSConfigError", "Failed to determine public IP address") ->
            "ip_discovery"
      [] e.type = "DNSConfigError" /\ e.msg \in {"Permission denied", "File system error"} ->
            "persistence"
      [] e.type = "DockerError" /\ e.msg \in {"Image not found", "Failed to pull image"} ->
            "image"
      [] e.type = "DockerError" /\ e.msg \in {"Docker installation failed", "Docker API error"} ->
            "runtime"
      [] OTHER -> "none"

\* The argument of sys.exit in the handler that catches the errors of a
\* kind: main's "except ValueError" for a record-format error, start's
\* "except (DNSConfigError, DockerError)" for the others.
ExitStatusOfKind(kind) == IF kind = "record_format" THEN 2 ELSE 1

\* A run has ended with an error of one of the five kinds.
EndedWithKind == pc = "exited" /\ ErrorKind(err) \in ErrorKinds

\* C12 as stated: the status of a run that ended with an error of one kind
\* is non-zero and is not the status that ends the runs of any other kind.
C12_Original ==
    EndedWithKind =>
        /\ exit_status \notin {<<>>, <<0>>}
        /\ \A kind \in ErrorKinds \ {ErrorKind(err)} :
              exit_status # <<ExitStatusOfKind(kind)>>

\* C12 amended: a run that ended with an error of one of the five kinds has
\* a non-zero status: 2 exactly for a record-format error, and 1 for an
\* IP-discovery, runtime, image or persistence error alike.
C12_KindStatus ==
    EndedWithKind =>
        /\ exit_status \notin {<<>>, <<0>>}
        /\ exit_status = <<ExitStatusOfKind(ErrorKind(err))>>
        /\ (exit_status = <<2>>) <=> (ErrorKind(err) = "record_format")
        /\ ErrorKind(err) # "record_format" => exit_status = <<1>>

\* A run ended by a persistence error on a zone file, with the status that
\* also ends the runs of the IP-discovery, runtime and image errors.
C12_Witness ==
    /\ EndedWithKind
    /\ ErrorKind(err) = "persistence"
    /\ Last(trace) = "write_zone"
    /\ exit_status = <<1>>
    /\ \A kind \in {"ip_discovery", "runtime", "image"} : ExitStatusOfKind(kind) = 1

\* The last "docker ps" of the run failed: the install followed it, and no
\* "docker ps" was run after it.
LastRuntimeCheckFailed ==
    \E i \in 1..(Len(trace) - 1) :
        /\ trace[i] = "docker_ps"
        /\ trace[i+1] = "install"
        /\ \A j \in (i+1)..Len(trace) : trace[j] # "docker_ps"

\* C13: the install is attempted at most once, and only after a failed
\* runtime check; once the install and enable commands have run the runtime
\* is checked again; no image pull is attempted while the last runtime check
\* is a failed one.
C13_RuntimeVerified ==
    /\ CountOf(trace, "install") <= 1
    /\ \A i \in 1..Len(trace) :
          trace[i] = "install" => i > 1 /\ trace[i-1] = "docker_ps"
    /\ \A i \in 1..Len(trace) :
          trace[i] = "enable" => \E j \in (i+1)..Len(trace) : trace[j] = "docker_ps"
    /\ Occurs(trace, "pull") => ~LastRuntimeCheckFailed

\* The run took the answer of the primary HTTP query as its public IP: an
\* address is set and the fallback command was not run.
PrimaryResponseUsed == public_ip # <<"None">> /\ ~Occurs(trace, "curl")

\* C14: the body of a non-2xx answer of the primary query is never the
\* public IP, and the primary response is the public IP only when it is the
\* answer of a successful (2xx) query.
C14_PrimaryFailureFallsBack ==
    /\ public_ip # ErrorBody
    /\ PrimaryResponseUsed => public_ip = PublicIp

\* The lookups of _get_public_ip, in the order of the fallback chain.
LookupChain == <<"http_get", "curl", "hostname">>

\* The run has ended with the IP-discovery error.
IpDiscoveryFailed ==
    err = Exc("DNSConfigError", "Failed to determine public IP address")

\* C15: the lookups are made in the order primary query, external lookup
\* utility, local interface address; the public IP is the answer of a
\* method that succeeded, never an empty or substitute text; and when the
\* IP-discovery error is raised every method has been tried and nothing
\* after the lookups has been done.
C15_FailsIffAllFail ==
    /\ \A i \in 1..Len(trace) :
          trace[i] \in {"http_get", "curl", "hostname"} =>
              i <= Len(LookupChain) /\ trace[i] = LookupChain[i]
    /\ public_ip \in {<<"None">>, PublicIp, LocalIp}
    /\ public_ip = LocalIp => Occurs(trace, "hostname")
    /\ IpDiscoveryFailed =>
          /\ trace = LookupChain
          /\ public_ip = <<"None">>
          /\ pc = "exited"
          /\ files = StaleFiles
          /\ containers \in InitialContainers

\* The launch of the new container has failed after the old container was
\* removed.
LaunchFailedAfterRemoval ==
    /\ pc = "exited"
    /\ err = Exc("DockerError", "Docker API error")
    /\ Last(trace) = "run"
    /\ Occurs(trace, "remove")

\* C16 as stated: after a failed launch that followed the removal, no
\* container has the name "dns-server", and the run has ended with a
\* failure status.
C16_Original ==
    LaunchFailedAfterRemoval =>
        /\ Named(containers, DnsServer) = {}
        /\ exit_status = <<1>>
        /\ ~Occurs(out, "success")

\* C16 amended: after a failed launch that followed the removal, the removed
\* container is gone and no container named "dns-server" is running: the
\* name is free, or it belongs to a new container that was created and
\* could not be started; the run has ended with a failure status.
C16_NoServerAfterFailedLaunch ==
    LaunchFailedAfterRemoval =>
        /\ old_container # 0
        /\ \A c \in containers : c.id # old_container
        /\ \A c \in Named(containers, DnsServer) :
              /\ c.status = "created"
              /\ c \notin UNION InitialContainers
        /\ Cardinality(Named(containers, DnsServer)) <= 1
        /\ exit_status = <<1>>
        /\ ~Occurs(out, "success")

\* The launch failed in the start of the created container, after a running
\* server was removed.
C16_Witness ==
    /\ LaunchFailedAfterRemoval
    /\ \E c \in Named(containers, DnsServer) : c.status = "created"
    /\ ~\E c \in containers : c.status = "running" /\ c.name = DnsServer

\* The steps of the current call of start: those after the last
\* "start_again".
CurrentCallTrace ==
    LET at == {i \in 1..Len(trace) : trace[i] = "start_again"}
    IN  IF at = {} THEN trace
        ELSE SubSeq(trace, (CHOOSE i \in at : \A j \in at : j <= i) + 1, Len(trace))

\* The apex domains of the records of the current call.
ApexesOfRecords == {LastTwoLabels(h) : h \in Keys(records)}

\* C17: once the current call has built the zone model, the domains of the
\* model are exactly the apex domains of the call's records and the
\* hostnames of each domain exactly the call's hostnames of that apex, with
\* the call's IPs; the named.conf written by the call has one stanza per
\* apex of the call's records and no other; every zone file written by the
\* call is the db.<apex> of one of the call's hostnames and holds record
\* lines for the call's hostnames only.
C17_ModelFromCurrentCall ==
    Occurs(CurrentCallTrace, "organize") =>
        /\ {dns_records[i][1] : i \in 1..Len(dns_records)} = ApexesOfRecords
        /\ \A i \in 1..Len(dns_records) :
              /\ Keys(dns_records[i][2]) =
                    {h \in Keys(records) : LastTwoLabels(h) = dns_records[i][1]}
              /\ \A h \in Keys(dns_records[i][2]) \cap Keys(records) :
                    Get(dns_records[i][2], h) = Get(records, h)
        /\ NamedConfPath \in DOMAIN written =>
              /\ Cardinality(StanzaLines(written[NamedConfPath]))
                    = Cardinality(ApexesOfRecords)
              /\ \A d \in ApexesOfRecords :
                    CountOf(written[NamedConfPath], ZoneEntry(d)) = 1
        /\ \A path \in DOMAIN written \ {NamedConfPath} :
              /\ \E d \in ApexesOfRecords : path = ZonePath(d)
              /\ \A n \in 1..Len(written[path]) :
                    IsRecordLine(written[path][n]) =>
                        RecordName(written[path][n]) \in Keys(records)

\* C18: a step removes a container named "dns-server" only when IP
\* discovery, the runtime check and the image pull have succeeded, named.conf
\* and every zone file have been written and are on disk as written, and no
\* stage has failed; so a run that fails in one of those stages ends with
\* the pre-existing container still there.
C18_NoEarlyTakedown ==
    [][ (\E c \in containers : c.name = DnsServer /\ c \notin containers') =>
            /\ err = NoError
            /\ public_ip # <<"None">>
            /\ client
            /\ PullSucceeded
            /\ Occurs(trace, "organize")
            /\ ConfigWritten
            /\ \A path \in DOMAIN written : files[path] = written[path]
            /\ Last(trace) = "get" ]_vars

\* The pre-existing running container has just been removed, after two zone
\* files were written.
C18_Witness ==
    /\ pc = "run"
    /\ Last(trace) = "remove"
    /\ old_container # 0
    /\ \A c \in containers : c.id # old_container
    /\ Len(dns_records) = 2
    /\ ConfigWritten

\* The token of a zone stanza between the zone name and the file name.
StanzaMiddle == "\" { type master; file \"/etc/bind/db."

\* The zone a stanza line names and the path of the file it references.
StanzaZone(line) == SubSeq(line, 2, IndexOf(line, StanzaMiddle) - 1)
StanzaFile(line) ==
    <<"/etc/bind/db.">> \o SubSeq(line, IndexOf(line, StanzaMiddle) + 1, Len(line) - 1)

\* The launch of the new container is the next step, or has been made.
AtLaunch == pc = "run" \/ (trace # <<>> /\ Last(trace) = "run")

\* C19: when the container is launched, named.conf has been written in this
\* run and is on disk as written; its stanzas name exactly the domains of
\* the model, one stanza each; and the file every stanza references is the
\* db.<apex> of its zone, written in this run and on disk as written.
C19_ConsistentAtLaunch ==
    AtLaunch =>
        /\ NamedConfPath \in DOMAIN written
        /\ files[NamedConfPath] = written[NamedConfPath]
        /\ LET conf == written[NamedConfPath]
           IN  /\ {StanzaZone(conf[n]) : n \in StanzaLines(conf)} = Keys(dns_records)
               /\ Cardinality(StanzaLines(conf)) = Cardinality(Keys(dns_records))
               /\ \A n \in StanzaLines(conf) :
                     /\ StanzaFile(conf[n]) = ZonePath(StanzaZone(conf[n]))
                     /\ StanzaFile(conf[n]) \in DOMAIN written
                     /\ files[StanzaFile(conf[n])] = written[StanzaFile(conf[n])]

\* The container has been launched with a named.conf of two zones.
C19_Witness ==
    /\ pc = "return"
    /\ Last(trace) = "run"
    /\ Cardinality(StanzaLines(written[NamedConfPath])) = 2
    /\ \E c \in Named(containers, DnsServer) : c.status = "running"

\* C20: with an entry that lacks '=' among the arguments, whatever its
\* position, nothing but the parsing ever happens: no lookup, runtime check,
\* pull, file write, container removal or launch is made, and once the
\* parsing is over the run has exited with status 2.
C20_AllOrNothingParsing ==
    ~AllEntriesHaveEquals =>
        /\ trace = <<>>
        /\ pulls = <<>>
        /\ public_ip = <<"None">>
        /\ ~client
        /\ dns_records = <<>>
        /\ written = Empty
        /\ files = StaleFiles
        /\ containers \in InitialContainers
        /\ pc \in {"parse", "exited"}
        /\ pc = "exited" =>
              /\ exit_status = <<2>>
              /\ err.type = "ValueError"
              /\ out = <<"invalid_input">>

\* The run has exited on a bad entry that follows a valid one.
C20_Witness ==
    /\ pc = "exited"
    /\ exit_status = <<2>>
    /\ Len(args) = 2
    /\ Contains(args[1], "=")
    /\ ~Contains(args[2], "=")

====
